---- MODULE Spec2Model ----
(***************************************************************************)
(* A model of tapioca/adapters.py: the adapter core (TapiocaAdapter), its  *)
(* three content codecs (FormAdapterMixin, JSONAdapterMixin,               *)
(* XMLAdapterMixin) and the per-instance state the XML codec keeps.        *)
(*                                                                         *)
(* Python values are tagged records:                                       *)
(*   None       [t |-> "none"]                                             *)
(*   int        [t |-> "int",  i |-> n]                                    *)
(*   str/bytes  [t |-> "str",  s |-> <<c1, ..., cn>>]  (one-character      *)
(*                                                      strings)           *)
(*   dict       [t |-> "dict", d |-> f]   f a function from keys (character*)
(*                                        sequences) to values             *)
(* Texts (request bodies, response bodies) are character sequences.        *)
(***************************************************************************)
EXTENDS Integers, Sequences, FiniteSets, TLC

\* ------------------------------------------------------------------------
\* Bounds of the model
\* ------------------------------------------------------------------------

\* largest integer that occurs in a payload
MaxInt == 1
\* longest string value that occurs in a payload
MaxStrLen == 1
\* largest number of built requests whose responses are not yet processed
MaxPending == 2

\* ------------------------------------------------------------------------
\* Python values
\* ------------------------------------------------------------------------

NoneV == [t |-> "none"]
IntV(n) == [t |-> "int", i |-> n]
StrV(s) == [t |-> "str", s |-> s]
DictV(f) == [t |-> "dict", d |-> f]
BoolV(b) == [t |-> "bool", b |-> b]

\* the empty dict {}: a function with an empty domain
EmptyMap == <<>>

\* bool(v), as used by "if data:"
Truthy(v) ==
    CASE v.t = "none" -> FALSE
      [] v.t = "int"  -> v.i # 0
      [] v.t = "str"  -> v.s # <<>>
      [] v.t = "dict" -> DOMAIN v.d # {}
      [] v.t = "bool" -> v.b

\* isinstance(v, Mapping)
IsMapping(v) == v.t = "dict"

\* the entry k: v added to (or replaced in) the dict f
DictSet(f, k, v) == [x \in (DOMAIN f) \cup {k} |-> IF x = k THEN v ELSE f[x]]

\* the iteration order of a finite set of keys: some fixed enumeration of it
KeyOrder(S) ==
    CHOOSE q \in [1..Cardinality(S) -> S] : \A k \in S : \E n \in DOMAIN q : q[n] = k

\* bytes.strip() / str.strip(): leading and trailing whitespace removed
IsSpace(c) == c \in {" ", "\n"}

RECURSIVE LStrip(_)
LStrip(s) == IF s # <<>> /\ IsSpace(Head(s)) THEN LStrip(Tail(s)) ELSE s

RECURSIVE RStrip(_)
RStrip(s) ==
    IF s # <<>> /\ IsSpace(s[Len(s)]) THEN RStrip(SubSeq(s, 1, Len(s) - 1)) ELSE s

Strip(s) == RStrip(LStrip(s))

\* ------------------------------------------------------------------------
\* json.dumps (default separators ", " and ": ")
\* ------------------------------------------------------------------------

Digits == <<"0", "1", "2", "3", "4", "5", "6", "7", "8", "9">>

RECURSIVE NatToChars(_)
NatToChars(n) ==
    IF n < 10 THEN <<Digits[n + 1]>> ELSE NatToChars(n \div 10) \o <<Digits[(n % 10) + 1]>>

IntToChars(n) == IF n < 0 THEN <<"-">> \o NatToChars(0 - n) ELSE NatToChars(n)

\* a string's characters with the quote and the backslash escaped
RECURSIVE JsonEscape(_)
JsonEscape(s) ==
    IF s = <<>> THEN <<>>
    ELSE (IF Head(s) \in {"\"", "\\"} THEN <<"\\", Head(s)>> ELSE <<Head(s)>>)
         \o JsonEscape(Tail(s))

JsonQuote(s) == <<"\"">> \o JsonEscape(s) \o <<"\"">>

RECURSIVE JsonDumps(_)
RECURSIVE JsonDumpsItems(_, _)
JsonDumpsItems(f, keys) ==
    IF keys = <<>> THEN <<>>
    ELSE JsonQuote(Head(keys)) \o <<":", " ">> \o JsonDumps(f[Head(keys)])
         \o (IF Tail(keys) = <<>> THEN <<>> ELSE <<",", " ">>)
         \o JsonDumpsItems(f, Tail(keys))

JsonDumps(v) ==
    CASE v.t = "none" -> <<"n", "u", "l", "l">>
      [] v.t = "int"  -> IntToChars(v.i)
      [] v.t = "str"  -> JsonQuote(v.s)
      [] v.t = "dict" -> <<"{">> \o JsonDumpsItems(v.d, KeyOrder(DOMAIN v.d)) \o <<"}">>

\* ------------------------------------------------------------------------
\* json.loads: a parse step returns [ok, v, rest]; ok = FALSE is ValueError
\* ------------------------------------------------------------------------

ParseFail == [ok |-> FALSE]
ParseOk(v, rest) == [ok |-> TRUE, v |-> v, rest |-> rest]

IsDigit(c) == \E n \in 1..10 : Digits[n] = c
DigitVal(c) == (CHOOSE n \in 1..10 : Digits[n] = c) - 1

\* the characters of a string after its opening quote, up to the closing one
RECURSIVE JsonParseString(_, _)
JsonParseString(s, acc) ==
    IF s = <<>> THEN ParseFail
    ELSE IF Head(s) = "\"" THEN ParseOk(acc, Tail(s))
    ELSE IF Head(s) = "\\"
         THEN IF Len(s) >= 2 /\ s[2] \in {"\"", "\\"}
              THEN JsonParseString(Tail(Tail(s)), Append(acc, s[2]))
              ELSE ParseFail
    ELSE IF Head(s) = "\n" THEN ParseFail
    ELSE JsonParseString(Tail(s), Append(acc, Head(s)))

\* the digits of an integer after its first one
RECURSIVE JsonParseDigits(_, _)
JsonParseDigits(s, acc) ==
    IF s # <<>> /\ IsDigit(Head(s))
    THEN JsonParseDigits(Tail(s), acc * 10 + DigitVal(Head(s)))
    ELSE ParseOk(acc, s)

\* an integer without its sign: "0", or a nonzero digit and more digits
JsonParseNat(s) ==
    IF s = <<>> \/ ~IsDigit(Head(s)) THEN ParseFail
    ELSE IF Head(s) = "0" THEN ParseOk(0, Tail(s))
    ELSE JsonParseDigits(Tail(s), DigitVal(Head(s)))

JsonParseNumber(s) ==
    IF s # <<>> /\ Head(s) = "-"
    THEN LET r == JsonParseNat(Tail(s))
         IN IF r.ok THEN ParseOk(IntV(0 - r.v), r.rest) ELSE ParseFail
    ELSE LET r == JsonParseNat(s)
         IN IF r.ok THEN ParseOk(IntV(r.v), r.rest) ELSE ParseFail

RECURSIVE JsonParseValue(_)
RECURSIVE JsonParseMembers(_, _)
\* the members of an object, s standing at the opening quote of a key
JsonParseMembers(s, acc) ==
    IF s = <<>> \/ Head(s) # "\"" THEN ParseFail
    ELSE LET k == JsonParseString(Tail(s), <<>>)
         IN IF ~k.ok THEN ParseFail
            ELSE LET s1 == LStrip(k.rest)
                 IN IF s1 = <<>> \/ Head(s1) # ":" THEN ParseFail
                    ELSE LET v == JsonParseValue(LStrip(Tail(s1)))
                         IN IF ~v.ok THEN ParseFail
                            ELSE LET s2 == LStrip(v.rest)
                                     f == DictSet(acc, k.v, v.v)
                                 IN IF s2 = <<>> THEN ParseFail
                                    ELSE IF Head(s2) = "}" THEN ParseOk(DictV(f), Tail(s2))
                                    ELSE IF Head(s2) = ","
                                         THEN JsonParseMembers(LStrip(Tail(s2)), f)
                                    ELSE ParseFail

JsonParseValue(s) ==
    IF s = <<>> THEN ParseFail
    ELSE IF Head(s) = "{"
         THEN LET s1 == LStrip(Tail(s))
              IN IF s1 # <<>> /\ Head(s1) = "}" THEN ParseOk(DictV(EmptyMap), Tail(s1))
                 ELSE JsonParseMembers(s1, EmptyMap)
    ELSE IF Head(s) = "\""
         THEN LET r == JsonParseString(Tail(s), <<>>)
              IN IF r.ok THEN ParseOk(StrV(r.v), r.rest) ELSE ParseFail
    ELSE IF Len(s) >= 4 /\ SubSeq(s, 1, 4) = <<"n", "u", "l", "l">>
         THEN ParseOk(NoneV, SubSeq(s, 5, Len(s)))
    ELSE JsonParseNumber(s)

\* json.loads(text): one value between optional whitespace, nothing after it
JsonLoads(text) ==
    LET r == JsonParseValue(LStrip(text))
    IN IF r.ok /\ LStrip(r.rest) = <<>> THEN [ok |-> TRUE, v |-> r.v] ELSE ParseFail

\* ------------------------------------------------------------------------
\* xmltodict.unparse and xmltodict.parse
\*
\* An XML text is a sequence of tokens: the XML declaration, an opening or
\* closing tag (one token each), or one character of text.
\* ------------------------------------------------------------------------

\* the characters that element names are made of, and the names the parser knows
NameChars == {"a", "b"}
XmlNames == {<<c>> : c \in NameChars}

\* the characters of a text, joined into one string
RECURSIVE Flat(_)
Flat(s) == IF s = <<>> THEN "" ELSE Head(s) \o Flat(Tail(s))

XmlDecl == "<?xml version=\"1.0\" encoding=\"utf-8\"?>"
OpenTag(k) == "<" \o Flat(k) \o ">"
CloseTag(k) == "</" \o Flat(k) \o ">"
CdataKey == <<"#", "t", "e", "x", "t">>

IsOpenTag(tok) == \E k \in XmlNames : tok = OpenTag(k)
IsCloseTag(tok) == \E k \in XmlNames : tok = CloseTag(k)
TagName(tok) == CHOOSE k \in XmlNames : tok = OpenTag(k) \/ tok = CloseTag(k)
\* one character of text: a token that has no markup in it
IsTextChar(tok) ==
    \/ tok \in NameChars \cup {" ", "\n", "\"", "\\", "{", "}", ":", ",", "-", "#"}
    \/ IsDigit(tok)

\* the value of option name in the options kw, or its default
Option(kw, name, default) == IF <<name>> \in DOMAIN kw THEN kw[<<name>>].b ELSE default

RECURSIVE XmlEmit(_, _)
RECURSIVE XmlEmitItems(_, _)
\* xmltodict._emit for the children of an element
XmlEmitItems(f, keys) ==
    IF keys = <<>> THEN <<>>
    ELSE (IF Head(keys) = CdataKey
          THEN (LET v == f[Head(keys)]
                IN IF v.t = "str" THEN v.s ELSE IF v.t = "int" THEN IntToChars(v.i) ELSE <<>>)
          ELSE XmlEmit(Head(keys), f[Head(keys)]))
         \o XmlEmitItems(f, Tail(keys))

\* xmltodict._emit: the element key with the content value
XmlEmit(key, value) ==
    <<OpenTag(key)>>
    \o (CASE value.t = "none" -> <<>>
          [] value.t = "int"  -> IntToChars(value.i)
          [] value.t = "str"  -> value.s
          [] value.t = "dict" -> XmlEmitItems(value.d, KeyOrder(DOMAIN value.d)))
    \o <<CloseTag(key)>>

\* xmltodict.unparse(input_dict, **kw): [ok, v], ok = FALSE is ValueError
XmlUnparse(input_dict, kw) ==
    LET full_document == Option(kw, "full_document", TRUE)
    IN IF full_document /\ Cardinality(DOMAIN input_dict) # 1
       THEN ParseFail
       ELSE [ok |-> TRUE,
             v |-> (IF full_document THEN <<XmlDecl, "\n">> ELSE <<>>)
                   \o XmlEmitItems(input_dict, KeyOrder(DOMAIN input_dict))]

\* what the parser has gathered of one element: its text and its children
XmlItem(text, kids, has_kids) == [text |-> text, kids |-> kids, has_kids |-> has_kids]

\* xmltodict's push_data: a second child of one name is dropped in favour of
\* the later one here (xmltodict builds a list; no modelled document repeats
\* a name)
XmlPush(kids, k, v) == DictSet(kids, k, v)

\* the value of a finished element (xmltodict's endElement)
XmlValue(item, force_cdata) ==
    LET data == Strip(item.text)
    IN IF item.has_kids
       THEN DictV(IF data # <<>> THEN DictSet(item.kids, CdataKey, StrV(data))
                  ELSE item.kids)
       ELSE IF data = <<>> THEN NoneV
       ELSE IF force_cdata THEN DictV(CdataKey :> StrV(data))
       ELSE StrV(data)

RECURSIVE XmlParseContent(_, _, _, _)
\* the content of element name, s standing just after its opening tag
XmlParseContent(s, name, item, force_cdata) ==
    IF s = <<>> THEN ParseFail
    ELSE IF IsCloseTag(Head(s))
         THEN IF TagName(Head(s)) = name
              THEN ParseOk(XmlValue(item, force_cdata), Tail(s))
              ELSE ParseFail
    ELSE IF IsOpenTag(Head(s))
         THEN LET k == TagName(Head(s))
                  r == XmlParseContent(Tail(s), k, XmlItem(<<>>, EmptyMap, FALSE), force_cdata)
              IN IF ~r.ok THEN ParseFail
                 ELSE XmlParseContent(r.rest, name,
                                      XmlItem(item.text, XmlPush(item.kids, k, r.v), TRUE),
                                      force_cdata)
    ELSE IF IsTextChar(Head(s))
         THEN XmlParseContent(Tail(s), name,
                              XmlItem(Append(item.text, Head(s)), item.kids, item.has_kids),
                              force_cdata)
    ELSE ParseFail

\* xmltodict.parse(xml_input, **kw): [ok, v], ok = FALSE is ExpatError
XmlParse(xml_input, kw) ==
    LET force_cdata == Option(kw, "force_cdata", FALSE)
        s0 == IF xml_input # <<>> /\ Head(xml_input) = XmlDecl
              THEN Tail(xml_input) ELSE xml_input
        s1 == LStrip(s0)
    IN IF s1 = <<>> \/ ~IsOpenTag(Head(s1)) THEN ParseFail
       ELSE LET k == TagName(Head(s1))
                r == XmlParseContent(Tail(s1), k, XmlItem(<<>>, EmptyMap, FALSE), force_cdata)
            IN IF r.ok /\ LStrip(r.rest) = <<>>
               THEN [ok |-> TRUE, v |-> DictV(k :> r.v)]
               ELSE ParseFail

\* ------------------------------------------------------------------------
\* Outcomes of a call, keyword arguments, the instance
\* ------------------------------------------------------------------------

Return(v) == [kind |-> "return", v |-> v]
Raise(exc) == [kind |-> "raise", exc |-> exc]
\* raise ResponseProcessException(kind, data)
ResponseProcessException(kind, data) == [kind |-> "raise", exc |-> kind, data |-> data]

\* A keyword-argument name is a sequence of segments; an option prefix is one
\* segment, so that k.startswith(prefix) reads the first segment and
\* k[len(prefix):] drops it.
UnparsePrefix == "xmltodict_unparse__"
ParsePrefix == "xmltodict_parse__"
StartsWith(k, prefix) == k # <<>> /\ Head(k) = prefix
AfterPrefix(k) == Tail(k)

DataKey == <<"data">>
HeadersKey == <<"headers">>
ContentTypeKey == <<"Content-Type">>

\* dict.get(k): None when k is absent
DictGet(f, k) == IF k \in DOMAIN f THEN f[k] ELSE NoneV
\* the dict f without the keys in S
DictWithout(f, S) == [k \in (DOMAIN f) \ S |-> f[k]]

\* the attributes an instance holds: a function from attribute names to values
UnparseAttr == "_xmltodict_unparse_kwargs"
ParseAttr == "_xmltodict_parse_kwargs"
HasAttr(obj, a) == a \in DOMAIN obj
SetAttr(obj, a, v) == [x \in (DOMAIN obj) \cup {a} |-> IF x = a THEN v ELSE obj[x]]

\* ------------------------------------------------------------------------
\* TapiocaAdapter and the codec mixins
\* ------------------------------------------------------------------------

\* SimpleSerializer.serialize: the default serializer passes values through
SimpleSerializer_serialize(data) == data

serialize_data(data) == SimpleSerializer_serialize(data)

Form_format_data_to_request(data) == Return(data)

JSON_format_data_to_request(data) ==
    IF Truthy(data) THEN Return(StrV(JsonDumps(data))) ELSE Return(NoneV)

XML_input_branches_to_xml_bytestring(obj, data) ==
    IF IsMapping(data)
    THEN IF ~HasAttr(obj, UnparseAttr) THEN Raise("AttributeError")
         ELSE LET r == XmlUnparse(data.d, obj[UnparseAttr])
              IN IF r.ok THEN Return(StrV(r.v)) ELSE Raise("ValueError")
    ELSE IF data.t = "str" THEN Return(data)
    ELSE Raise("AttributeError")

XML_format_data_to_request(obj, data) ==
    IF Truthy(data) THEN XML_input_branches_to_xml_bytestring(obj, data) ELSE Return(NoneV)

format_data_to_request(cls, obj, data) ==
    CASE cls = "Form" -> Form_format_data_to_request(data)
      [] cls = "JSON" -> JSON_format_data_to_request(data)
      [] cls = "XML"  -> XML_format_data_to_request(obj, data)

\* TapiocaAdapter.get_request_kwargs
Base_get_request_kwargs(cls, obj, kwargs) ==
    LET serialized == serialize_data(DictGet(kwargs, DataKey))
        formatted == format_data_to_request(cls, obj, serialized)
    IN IF formatted.kind = "raise" THEN formatted
       ELSE Return(DictSet(kwargs, DataKey, formatted.v))

\* the lines both mixins end get_request_kwargs with: the Content-Type header
WithContentType(arguments, content_type) ==
    LET headers == IF HeadersKey \in DOMAIN arguments THEN arguments[HeadersKey]
                   ELSE DictV(EmptyMap)
    IN IF headers.t # "dict" THEN Raise("TypeError")
       ELSE Return(DictSet(arguments, HeadersKey,
                           DictV(DictSet(headers.d, ContentTypeKey, StrV(content_type)))))

\* every get_request_kwargs yields [obj, out]: the instance after the call and
\* the call's outcome
Form_get_request_kwargs(obj, kwargs) ==
    [obj |-> obj, out |-> Base_get_request_kwargs("Form", obj, kwargs)]

JSON_get_request_kwargs(obj, kwargs) ==
    LET arguments == Base_get_request_kwargs("JSON", obj, kwargs)
    IN [obj |-> obj,
        out |-> IF arguments.kind = "raise" THEN arguments
                ELSE WithContentType(arguments.v, <<"application/", "json">>)]

\* the keyword arguments that start with prefix, the prefix removed
PrefixedOptions(kwargs, prefix) ==
    [o \in {AfterPrefix(k) : k \in {x \in DOMAIN kwargs : StartsWith(x, prefix)}}
       |-> kwargs[<<prefix>> \o o]]
\* the keyword arguments left when those are popped
PoppedKwargs(kwargs, prefix) ==
    DictWithout(kwargs, {x \in DOMAIN kwargs : StartsWith(x, prefix)})

\* XML_get_request_kwargs building the request before it stores the options
XML_get_request_kwargs_StoreLate(obj, kwargs) ==
    LET unparse_kwargs == PrefixedOptions(kwargs, UnparsePrefix)
        kwargs1 == PoppedKwargs(kwargs, UnparsePrefix)
        parse_kwargs == PrefixedOptions(kwargs1, ParsePrefix)
        kwargs2 == PoppedKwargs(kwargs1, ParsePrefix)
        obj2 == SetAttr(SetAttr(obj, UnparseAttr, unparse_kwargs), ParseAttr, parse_kwargs)
        arguments == Base_get_request_kwargs("XML", obj, kwargs2)
    IN [obj |-> obj2,
        out |-> IF arguments.kind = "raise" THEN arguments
                ELSE WithContentType(arguments.v, <<"application/", "xml">>)]

\* XML_get_request_kwargs with the parse options left among the keyword
\* arguments (read, not popped)
XML_get_request_kwargs_NoPop(obj, kwargs) ==
    LET unparse_kwargs == PrefixedOptions(kwargs, UnparsePrefix)
        kwargs1 == PoppedKwargs(kwargs, UnparsePrefix)
        parse_kwargs == PrefixedOptions(kwargs1, ParsePrefix)
        obj2 == SetAttr(SetAttr(obj, UnparseAttr, unparse_kwargs), ParseAttr, parse_kwargs)
        arguments == Base_get_request_kwargs("XML", obj2, kwargs1)
    IN [obj |-> obj2,
        out |-> IF arguments.kind = "raise" THEN arguments
                ELSE WithContentType(arguments.v, <<"application/", "xml">>)]

\* XML_get_request_kwargs updating the stored options instead of replacing them
XML_get_request_kwargs_Update(obj, kwargs) ==
    LET old(a) == IF HasAttr(obj, a) THEN obj[a] ELSE EmptyMap
        unparse_kwargs == PrefixedOptions(kwargs, UnparsePrefix) @@ old(UnparseAttr)
        kwargs1 == PoppedKwargs(kwargs, UnparsePrefix)
        parse_kwargs == PrefixedOptions(kwargs1, ParsePrefix) @@ old(ParseAttr)
        kwargs2 == PoppedKwargs(kwargs1, ParsePrefix)
        obj2 == SetAttr(SetAttr(obj, UnparseAttr, unparse_kwargs), ParseAttr, parse_kwargs)
        arguments == Base_get_request_kwargs("XML", obj2, kwargs2)
    IN [obj |-> obj2,
        out |-> IF arguments.kind = "raise" THEN arguments
                ELSE WithContentType(arguments.v, <<"application/", "xml">>)]

XML_get_request_kwargs(obj, kwargs) ==
    LET unparse_kwargs == PrefixedOptions(kwargs, UnparsePrefix)
        kwargs1 == PoppedKwargs(kwargs, UnparsePrefix)
        parse_kwargs == PrefixedOptions(kwargs1, ParsePrefix)
        kwargs2 == PoppedKwargs(kwargs1, ParsePrefix)
        obj2 == SetAttr(SetAttr(obj, UnparseAttr, unparse_kwargs), ParseAttr, parse_kwargs)
        arguments == Base_get_request_kwargs("XML", obj2, kwargs2)
    IN [obj |-> obj2,
        out |-> IF arguments.kind = "raise" THEN arguments
                ELSE WithContentType(arguments.v, <<"application/", "xml">>)]

get_request_kwargs(cls, obj, kwargs) ==
    CASE cls = "Form" -> Form_get_request_kwargs(obj, kwargs)
      [] cls = "JSON" -> JSON_get_request_kwargs(obj, kwargs)
      [] cls = "XML"  -> XML_get_request_kwargs(obj, kwargs)

\* TapiocaAdapter.generate_request_kwargs: a one-element list
generate_request_kwargs(cls, obj, kwargs) ==
    LET r == get_request_kwargs(cls, obj, kwargs)
    IN [obj |-> r.obj,
        out |-> IF r.out.kind = "raise" THEN r.out ELSE Return(<<r.out.v>>)]

\* A response is [status_code, content, headers]; a header value is a sequence
\* of segments, and "xml" in value holds when one of them is "xml".
TextKey == <<"t", "e", "x", "t">>
ResponseContentTypeKey == "content-type"
Contains(value, part) == \E n \in DOMAIN value : value[n] = part

Form_response_to_native(response) == Return(DictV(TextKey :> StrV(response.content)))

\* JSON_response_to_native answering as the form codec does
JSON_response_to_native_AsText(response) == Return(DictV(TextKey :> StrV(response.content)))

\* JSON_response_to_native without its test for an empty body
JSON_response_to_native_NoEmptyTest(response) ==
    LET r == JsonLoads(response.content)
    IN IF r.ok THEN Return(r.v) ELSE Raise("ValueError")

JSON_response_to_native(response) ==
    IF Strip(response.content) # <<>>
    THEN LET r == JsonLoads(response.content)
         IN IF r.ok THEN Return(r.v) ELSE Raise("ValueError")
    ELSE Return(NoneV)

\* XML_response_to_native parsing with xmltodict's defaults, the stored
\* options not passed
XML_response_to_native_NoOptions(obj, response) ==
    IF Strip(response.content) # <<>>
    THEN IF ResponseContentTypeKey \notin DOMAIN response.headers THEN Raise("KeyError")
         ELSE IF Contains(response.headers[ResponseContentTypeKey], "xml")
              THEN LET r == XmlParse(response.content, EmptyMap)
                   IN IF r.ok THEN Return(r.v) ELSE Raise("ExpatError")
         ELSE Return(DictV(TextKey :> StrV(response.content)))
    ELSE Return(NoneV)

XML_response_to_native(obj, response) ==
    IF Strip(response.content) # <<>>
    THEN IF ResponseContentTypeKey \notin DOMAIN response.headers THEN Raise("KeyError")
         ELSE IF Contains(response.headers[ResponseContentTypeKey], "xml")
              THEN IF ~HasAttr(obj, ParseAttr) THEN Raise("AttributeError")
                   ELSE LET r == XmlParse(response.content, obj[ParseAttr])
                        IN IF r.ok THEN Return(r.v) ELSE Raise("ExpatError")
         ELSE Return(DictV(TextKey :> StrV(response.content)))
    ELSE Return(NoneV)

response_to_native(cls, obj, response) ==
    CASE cls = "Form" -> Form_response_to_native(response)
      [] cls = "JSON" -> JSON_response_to_native(response)
      [] cls = "XML"  -> XML_response_to_native(obj, response)

\* process_response with the ClientError raised before the body is decoded
process_response_NoData(cls, obj, response) ==
    IF response.status_code = 404
    THEN [out |-> ResponseProcessException("NotFound404Error", NoneV), native |-> <<>>]
    ELSE IF 500 <= response.status_code /\ response.status_code < 600
    THEN [out |-> ResponseProcessException("ServerError", NoneV), native |-> <<>>]
    ELSE IF 400 <= response.status_code /\ response.status_code < 500
    THEN [out |-> ResponseProcessException("ClientError", NoneV), native |-> <<>>]
    ELSE LET data == response_to_native(cls, obj, response)
         IN [out |-> data, native |-> <<data>>]

\* process_response decoding the body before it looks at the status
process_response_DecodeFirst(cls, obj, response) ==
    LET data == response_to_native(cls, obj, response)
    IN IF data.kind = "raise" THEN [out |-> data, native |-> <<data>>]
       ELSE IF response.status_code = 404
       THEN [out |-> ResponseProcessException("NotFound404Error", NoneV), native |-> <<data>>]
       ELSE IF 500 <= response.status_code /\ response.status_code < 600
       THEN [out |-> ResponseProcessException("ServerError", NoneV), native |-> <<data>>]
       ELSE IF 400 <= response.status_code /\ response.status_code < 500
       THEN [out |-> ResponseProcessException("ClientError", data.v), native |-> <<data>>]
       ELSE [out |-> data, native |-> <<data>>]

\* process_response catching a decode failure of a 4xx body
process_response_WrapDecode(cls, obj, response) ==
    IF response.status_code = 404
    THEN [out |-> ResponseProcessException("NotFound404Error", NoneV), native |-> <<>>]
    ELSE IF 500 <= response.status_code /\ response.status_code < 600
    THEN [out |-> ResponseProcessException("ServerError", NoneV), native |-> <<>>]
    ELSE LET data == response_to_native(cls, obj, response)
         IN IF 400 <= response.status_code /\ response.status_code < 500
            THEN [out |-> ResponseProcessException("ClientError",
                                                   IF data.kind = "raise" THEN NoneV
                                                   ELSE data.v),
                  native |-> <<data>>]
            ELSE [out |-> data, native |-> <<data>>]

\* TapiocaAdapter.process_response: [out, native], the call's outcome and the
\* outcomes of the response_to_native calls it made, in order
process_response(cls, obj, response) ==
    IF response.status_code = 404
    THEN [out |-> ResponseProcessException("NotFound404Error", NoneV), native |-> <<>>]
    ELSE IF 500 <= response.status_code /\ response.status_code < 600
    THEN [out |-> ResponseProcessException("ServerError", NoneV), native |-> <<>>]
    ELSE LET data == response_to_native(cls, obj, response)
         IN IF data.kind = "raise" THEN [out |-> data, native |-> <<data>>]
            ELSE IF 400 <= response.status_code /\ response.status_code < 500
            THEN [out |-> ResponseProcessException("ClientError", data.v),
                  native |-> <<data>>]
            ELSE [out |-> data, native |-> <<data>>]

\* ------------------------------------------------------------------------
\* Inputs
\* ------------------------------------------------------------------------

Codecs == {"Form", "JSON", "XML"}

\* the characters of payload strings: a letter, the quote, the backslash
Chars == {"a", "\"", "\\"}
Strings(n) == UNION {[1..m -> Chars] : m \in 0..n}

\* payload values that hold no other value
Leaves ==
    {NoneV} \cup {IntV(i) : i \in (0 - MaxInt)..MaxInt} \cup {StrV(x) : x \in Strings(MaxStrLen)}
PayloadKeys == {<<"a">>, <<"b", "\"">>}
MapsOver(keys, values) == UNION {[S -> values] : S \in SUBSET keys}
\* the structured mappings: string keys, values leaves or mappings of leaves
Mappings ==
    {DictV(f) : f \in MapsOver(PayloadKeys,
                               Leaves \cup {DictV(EmptyMap)}
                                      \cup {DictV(k :> v) : k \in PayloadKeys, v \in Leaves})}

\* the data of a call: none, a mapping with one root, a mapping with two
\* roots, a document already in text, and a number
OneRoot == DictV(<<"a">> :> StrV(<<"a">>))
TwoRoots == DictV((<<"a">> :> IntV(1)) @@ (<<"b">> :> NoneV))
DataChoices ==
    {EmptyMap} \cup {DataKey :> v : v \in {OneRoot, TwoRoots, StrV(<<"a">>), IntV(1)}}
\* the other arguments of a call: none, or headers and query parameters
PlainChoices ==
    {EmptyMap,
     (HeadersKey :> DictV(ContentTypeKey :> StrV(<<"text/", "plain">>)))
        @@ (<<"params">> :> DictV(<<"a">> :> IntV(1)))}
\* the options of a call: each absent, or set against its default
PrefixedChoices ==
    {u @@ q : u \in {EmptyMap, <<UnparsePrefix, "full_document">> :> BoolV(FALSE)},
              q \in {EmptyMap, <<ParsePrefix, "force_cdata">> :> BoolV(TRUE)}}
\* the keyword arguments of a call
Kwargs == {d @@ h @@ o : d \in DataChoices, h \in PlainChoices, o \in PrefixedChoices}

Statuses == {200, 399, 400, 404, 499, 500, 599, 600}
JsonBody == JsonDumps(DictV(<<"a">> :> IntV(1)))
XmlBody == XmlUnparse(OneRoot.d, EmptyMap).v
Bodies == {<<>>, <<" ", "\n">>, JsonBody, <<"{">>, XmlBody}
ResponseHeaders ==
    {EmptyMap} \cup {ResponseContentTypeKey :> v :
                       v \in {<<"application/", "xml">>, <<"application/", "json">>}}
Responses == [status_code : Statuses, content : Bodies, headers : ResponseHeaders]

\* the option keyword arguments among kwargs, prefixes kept
Prefixed(kwargs) ==
    [k \in {x \in DOMAIN kwargs : StartsWith(x, UnparsePrefix) \/ StartsWith(x, ParsePrefix)}
       |-> kwargs[k]]

\* ------------------------------------------------------------------------
\* The state: one adapter instance and what its caller has seen
\* ------------------------------------------------------------------------

VARIABLES
    codec,      \* the mixin the instance's class is built with
    self,       \* the instance's attributes
    last,       \* the most recent call on the instance: arguments and outcome
    recent,     \* <<>> or <<the option keyword arguments of the most recent
                \*   get_request_kwargs call>>
    pending,    \* the option keyword arguments of the calls whose request is
                \* built and whose response is not yet processed
    ref         \* <<>> or <<an earlier generate_request_kwargs call>>

vars == <<codec, self, last, recent, pending, ref>>

Init ==
    /\ codec \in Codecs
    /\ self = EmptyMap
    /\ last = [op |-> "init"]
    /\ recent = <<>>
    /\ pending = <<>>
    /\ ref = <<>>

\* generate_request_kwargs(api_params, **kwargs)
GenerateRequestKwargs(kwargs) ==
    LET r == generate_request_kwargs(codec, self, kwargs)
    IN /\ self' = r.obj
       /\ last' = [op |-> "generate_request_kwargs", kwargs |-> kwargs, out |-> r.out]
       /\ recent' = <<Prefixed(kwargs)>>
       /\ UNCHANGED codec

\* process_response(response), for the call whose options are call (<<>> when
\* the response belongs to no call built here)
ProcessResponse(response, call) ==
    LET r == process_response(codec, self, response)
    IN /\ last' = [op |-> "process_response", response |-> response, call |-> call,
                   out |-> r.out, native |-> r.native]
       /\ UNCHANGED <<codec, self, recent>>

\* One call at a time: a request is built, a response is processed.
Request == \E kwargs \in Kwargs : GenerateRequestKwargs(kwargs) /\ UNCHANGED <<pending, ref>>
Respond == \E response \in Responses : ProcessResponse(response, <<>>) /\ UNCHANGED <<pending, ref>>

Next == Request \/ Respond

Spec == Init /\ [][Next]_vars

\* Fan-out and re-entrant use: several requests are built before their
\* responses are processed, in any order.
FanOutKwargs ==
    {(DataKey :> d) @@ o : d \in {OneRoot, TwoRoots}, o \in PrefixedChoices}
FanOutResponses ==
    [status_code : {200, 400}, content : {XmlBody, <<>>},
     headers : {ResponseContentTypeKey :> <<"application/", "xml">>}]
Without(q, i) == SubSeq(q, 1, i - 1) \o SubSeq(q, i + 1, Len(q))

Build ==
    \E kwargs \in FanOutKwargs :
        /\ Len(pending) < MaxPending
        /\ GenerateRequestKwargs(kwargs)
        /\ pending' = IF last'.out.kind = "return" THEN Append(pending, Prefixed(kwargs))
                      ELSE pending
        /\ UNCHANGED ref

Deliver ==
    \E i \in DOMAIN pending, response \in FanOutResponses :
        /\ ProcessResponse(response, <<pending[i]>>)
        /\ pending' = Without(pending, i)
        /\ UNCHANGED ref

NextFanOut == Build \/ Deliver

SpecFanOut == Init /\ [][NextFanOut]_vars

\* Repeated calls: any earlier generate_request_kwargs call may be the one a
\* later call is compared with.
Call ==
    \E kwargs \in Kwargs :
        /\ GenerateRequestKwargs(kwargs)
        /\ ref' \in {ref, <<[kwargs |-> kwargs, out |-> last'.out]>>}
        /\ UNCHANGED pending

NextRepeat == Call

SpecRepeat == Init /\ [][NextRepeat]_vars

\* The JSON codec's encode/decode pair: the caller holds a mapping, encodes
\* it, and the text comes back as the body of the response that is decoded.
InitJson ==
    /\ codec = "JSON"
    /\ self = EmptyMap
    /\ last \in {[op |-> "input", data |-> m] : m \in Mappings}
    /\ recent = <<>>
    /\ pending = <<>>
    /\ ref = <<>>

\* the body the transport sends for an encoded payload: none for None
BodyOf(encoded) == IF encoded.t = "str" THEN encoded.s ELSE <<>>

Encode ==
    /\ last.op = "input"
    /\ last' = [op |-> "format_data_to_request", data |-> last.data,
                out |-> format_data_to_request(codec, self, last.data)]
    /\ UNCHANGED <<codec, self, recent, pending, ref>>

Decode ==
    /\ last.op = "format_data_to_request"
    /\ last.out.kind = "return"
    /\ LET response == [status_code |-> 200, content |-> BodyOf(last.out.v),
                        headers |-> ResponseContentTypeKey :> <<"application/", "json">>]
       IN last' = [op |-> "response_to_native", data |-> last.data, response |-> response,
                   out |-> response_to_native(codec, self, response)]
    /\ UNCHANGED <<codec, self, recent, pending, ref>>

NextJson == Encode \/ Decode

SpecJson == InitJson /\ [][NextJson]_vars

\* ------------------------------------------------------------------------
\* Response classification
\* ------------------------------------------------------------------------

Processed == last.op = "process_response"
Status == last.response.status_code
\* what response_to_native gives for the response just processed
Native == response_to_native(codec, self, last.response)
TransportError == Status = 404 \/ (500 <= Status /\ Status < 600)

\* C1 as stated: every response with 400 <= status < 500 fails with ClientError
\* carrying response_to_native(response).
C1_Original ==
    (Processed /\ 400 <= Status /\ Status < 500) =>
        /\ Native.kind = "return"
        /\ last.out = ResponseProcessException("ClientError", Native.v)

\* C1 amended: every response with 400 <= status < 500, status other than 404,
\* whose body response_to_native decodes, fails with ClientError carrying
\* response_to_native(response).
C1_ClientError ==
    (Processed /\ 400 <= Status /\ Status < 500 /\ Status # 404 /\ Native.kind = "return") =>
        last.out = ResponseProcessException("ClientError", Native.v)

C1_Witness ==
    /\ Processed /\ codec = "JSON" /\ Status = 400
    /\ last.out = ResponseProcessException("ClientError", DictV(<<"a">> :> IntV(1)))

\* C2: a response with status 404 or 500 <= status < 600 fails with
\* NotFound404Error or ServerError, the failure carries no decoded payload, and
\* response_to_native is not invoked, whatever the body.
C2_TransportErrors ==
    (Processed /\ TransportError) =>
        /\ last.out = ResponseProcessException(
                          IF Status = 404 THEN "NotFound404Error" ELSE "ServerError", NoneV)
        /\ last.native = <<>>

C2_Witness ==
    /\ Processed /\ Status = 500 /\ Native.kind = "raise"
    /\ last.out.exc = "ServerError" /\ last.native = <<>>

\* C3: a response with 200 <= status < 400 whose body the codec decodes raises
\* nothing and returns response_to_native(response); for the JSON codec and a
\* whitespace-only body that is None.
C3_Success ==
    (Processed /\ 200 <= Status /\ Status < 400) =>
        /\ Native.kind = "return" => last.out = Native
        /\ (codec = "JSON" /\ Strip(last.response.content) = <<>>) => last.out = Return(NoneV)

C3_Witness ==
    /\ Processed /\ codec = "JSON" /\ Status = 200
    /\ last.response.content = <<" ", "\n">>
    /\ last.out = Return(NoneV)

\* C4: when the status is neither 404 nor in 500..599 and response_to_native
\* fails on the body, process_response fails with that same failure, also for
\* a status in 400..499.
C4_DecodeFailure ==
    (Processed /\ ~TransportError /\ Native.kind = "raise") =>
        /\ last.out = Native
        /\ last.out.exc \notin {"ClientError", "ServerError", "NotFound404Error"}
        /\ last.native = <<Native>>

C4_Witness ==
    /\ Processed /\ codec = "JSON" /\ Status = 400
    /\ last.response.content = <<"{">>
    /\ last.out = Raise("ValueError")

\* ------------------------------------------------------------------------
\* The XML codec: decoding, request building, stored options
\* ------------------------------------------------------------------------

XmlParseOutcome(content, kw) ==
    LET r == XmlParse(content, kw) IN IF r.ok THEN Return(r.v) ELSE Raise("ExpatError")
TextFallback(response) == Return(DictV(TextKey :> StrV(response.content)))
IsXmlResponse(response) ==
    /\ ResponseContentTypeKey \in DOMAIN response.headers
    /\ Contains(response.headers[ResponseContentTypeKey], "xml")
\* process_response called response_to_native
Decoded == Processed /\ last.native # <<>>

\* C8 as stated: for the XML codec response_to_native returns the XML parse of
\* the body when the content-type contains "xml" and {"text": response_text}
\* otherwise, for every body.
C8_Original ==
    (Decoded /\ codec = "XML") =>
        IF IsXmlResponse(last.response)
        THEN /\ recent # <<>>
             /\ last.native[1] = XmlParseOutcome(last.response.content,
                                                 PrefixedOptions(recent[1], ParsePrefix))
        ELSE last.native[1] = TextFallback(last.response)

\* C8 amended: for the XML codec response_to_native returns None for an empty
\* or whitespace-only body; for any other body it fails with KeyError when the
\* response has no content-type header, returns {"text": response_text} when
\* the content-type does not contain "xml", and when it does returns the XML
\* parse of the body under the parse options of the most recent
\* get_request_kwargs call, failing with AttributeError when there was none.
C8_XmlDecoding ==
    (Decoded /\ codec = "XML") =>
        last.native[1] =
            IF Strip(last.response.content) = <<>> THEN Return(NoneV)
            ELSE IF ResponseContentTypeKey \notin DOMAIN last.response.headers
                 THEN Raise("KeyError")
            ELSE IF ~IsXmlResponse(last.response) THEN TextFallback(last.response)
            ELSE IF recent = <<>> THEN Raise("AttributeError")
            ELSE XmlParseOutcome(last.response.content,
                                 PrefixedOptions(recent[1], ParsePrefix))

C8_Witness ==
    /\ Decoded /\ codec = "XML" /\ IsXmlResponse(last.response)
    /\ last.response.content = XmlBody
    /\ recent = <<(<<ParsePrefix, "force_cdata">> :> BoolV(TRUE))>>
    /\ last.native[1] = Return(DictV(<<"a">> :> DictV(CdataKey :> StrV(<<"a">>))))

Generated == last.op = "generate_request_kwargs"
IsOptionKey(k) == StartsWith(k, UnparsePrefix) \/ StartsWith(k, ParsePrefix)
\* the body the XML codec makes of data under the unparse options kw
XmlEncoded(data, kw) ==
    IF ~Truthy(data) THEN NoneV
    ELSE IF IsMapping(data) THEN StrV(XmlUnparse(data.d, kw).v)
    ELSE data

\* C9: the RequestKwargs the XML codec's get_request_kwargs returns has no key
\* with the unparse-options or the parse-options prefix, keeps every other
\* keyword argument of the call with its value, holds the encoded data, and
\* its headers carry Content-Type application/xml beside the call's headers.
C9_OptionsStripped ==
    (Generated /\ codec = "XML" /\ last.out.kind = "return") =>
        LET kwargs == last.kwargs
            request == last.out.v[1]
            plain == {k \in DOMAIN kwargs : ~IsOptionKey(k)}
            given == IF HeadersKey \in DOMAIN kwargs THEN kwargs[HeadersKey].d ELSE EmptyMap
        IN /\ \A k \in DOMAIN request : ~IsOptionKey(k)
           /\ DOMAIN request = plain \cup {DataKey, HeadersKey}
           /\ \A k \in plain \ {DataKey, HeadersKey} : request[k] = kwargs[k]
           /\ request[DataKey] = XmlEncoded(DictGet(kwargs, DataKey),
                                            PrefixedOptions(kwargs, UnparsePrefix))
           /\ request[HeadersKey].d[ContentTypeKey] = StrV(<<"application/", "xml">>)
           /\ \A h \in (DOMAIN given) \ {ContentTypeKey} :
                  request[HeadersKey].d[h] = given[h]

C9_Witness ==
    /\ Generated /\ codec = "XML" /\ last.out.kind = "return"
    /\ <<UnparsePrefix, "full_document">> \in DOMAIN last.kwargs
    /\ <<ParsePrefix, "force_cdata">> \in DOMAIN last.kwargs
    /\ <<"params">> \in DOMAIN last.kwargs
    /\ last.out.v[1][DataKey] = StrV(<<"<a>", "a", "</a>">>)

\* C10: on an XML adapter instance, before the first get_request_kwargs call
\* neither option set exists, and after a call the stored unparse and parse
\* options are the prefixed keyword arguments of the most recent call, the
\* prefix removed: empty when it passed none, nothing kept of earlier calls.
C10_StoredOptions ==
    codec = "XML" =>
        IF recent = <<>> THEN DOMAIN self = {}
        ELSE /\ DOMAIN self = {UnparseAttr, ParseAttr}
             /\ \A p \in {<<UnparsePrefix, UnparseAttr>>, <<ParsePrefix, ParseAttr>>} :
                  LET given == {k \in DOMAIN recent[1] : Head(k) = p[1]}
                  IN /\ DOMAIN self[p[2]] = {Tail(k) : k \in given}
                     /\ \A k \in given : self[p[2]][Tail(k)] = recent[1][k]

C10_Witness ==
    /\ codec = "XML" /\ Processed
    /\ recent = <<EmptyMap>>
    /\ self = (UnparseAttr :> EmptyMap) @@ (ParseAttr :> EmptyMap)

\* ------------------------------------------------------------------------
\* Options across calls, repeated calls, the JSON round trip
\* ------------------------------------------------------------------------

\* C5: through one XML adapter instance, also when several requests are built
\* before their responses are decoded, the unparse options a call's body is
\* encoded with and the parse options its response is decoded with are the
\* options of that call's own keyword arguments.
C5_OwnOptions ==
    /\ (Generated /\ codec = "XML" /\ last.out.kind = "return") =>
           last.out.v[1][DataKey] = XmlEncoded(DictGet(last.kwargs, DataKey),
                                               PrefixedOptions(last.kwargs, UnparsePrefix))
    /\ (Decoded /\ codec = "XML" /\ last.call # <<>>
          /\ Strip(last.response.content) # <<>> /\ IsXmlResponse(last.response)) =>
           /\ self[ParseAttr] = PrefixedOptions(last.call[1], ParsePrefix)
           /\ last.native[1] = XmlParseOutcome(last.response.content,
                                               PrefixedOptions(last.call[1], ParsePrefix))

\* C7: for each codec, two generate_request_kwargs calls on one instance with
\* identical arguments have equal outcomes, whatever was called before and
\* between them, and a returned sequence has exactly one element; the same
\* holds when the second call is given the headers mapping as the first call
\* left it.
C7_Idempotent ==
    (Generated /\ ref # <<>> /\ ref[1].kwargs = last.kwargs) =>
        /\ last.out = ref[1].out
        /\ last.out.kind = "return" =>
             /\ Len(last.out.v) = 1
             /\ (HeadersKey \in DOMAIN last.kwargs) =>
                  generate_request_kwargs(codec, self,
                      DictSet(last.kwargs, HeadersKey, last.out.v[1][HeadersKey])).out
                    = last.out

C7_Witness ==
    /\ Generated /\ codec = "XML" /\ ref # <<>> /\ ref[1].kwargs = last.kwargs
    /\ <<UnparsePrefix, "full_document">> \notin DOMAIN last.kwargs
    /\ last.out.kind = "return"
    /\ last.out.v[1][DataKey] = StrV(XmlBody)
    /\ recent # <<>>

\* C6 as stated: for the JSON codec and every structured mapping m, decoding a
\* response whose body is format_data_to_request(m) returns m.
C6_Original ==
    last.op = "response_to_native" => last.out = Return(last.data)

\* C6 amended: for the JSON codec and every structured mapping m that is not
\* empty, decoding a response whose body is format_data_to_request(m) returns
\* m; for the empty mapping format_data_to_request gives no body and decoding
\* returns None.
C6_RoundTrip ==
    last.op = "response_to_native" =>
        last.out = IF DOMAIN last.data.d # {} THEN Return(last.data) ELSE Return(NoneV)

C6_Witness ==
    /\ last.op = "response_to_native"
    /\ last.data = DictV((<<"b", "\"">> :> StrV(<<"\\">>))
                         @@ (<<"a">> :> DictV(<<"a">> :> IntV(0 - 1))))
    /\ last.out = Return(last.data)

====
